---- MODULE Spec2Model ----
(***************************************************************************)
(* Model of frontend/js/api.js: the async function api(path, method, body) *)
(* that wraps fetch with JSON encoding of the request body, JSON decoding  *)
(* of the response body and normalisation of non-success statuses into an  *)
(* Error.                                                                  *)
(*                                                                         *)
(* JavaScript values are records of one shape [t, b, n, s, o]: t is the    *)
(* type tag, b/n/s the boolean, number or string payload, o the own        *)
(* properties (objects) or elements (arrays) as a sequence of [k, v].      *)
(* JSON text is a sequence of lexical tokens.                              *)
(***************************************************************************)
EXTENDS Integers, Sequences, FiniteSets, TLC

(***************************************************************************)
(* JavaScript values                                                       *)
(***************************************************************************)
Undefined == [t |-> "undefined", b |-> FALSE, n |-> 0, s |-> "", o |-> <<>>]
Null      == [t |-> "null", b |-> FALSE, n |-> 0, s |-> "", o |-> <<>>]
Bool(x)   == [t |-> "boolean", b |-> x, n |-> 0, s |-> "", o |-> <<>>]
Num(x)    == [t |-> "number", b |-> FALSE, n |-> x, s |-> "", o |-> <<>>]
Str(x)    == [t |-> "string", b |-> FALSE, n |-> 0, s |-> x, o |-> <<>>]
Obj(ms)   == [t |-> "object", b |-> FALSE, n |-> 0, s |-> "", o |-> ms]
Arr(es)   == [t |-> "array", b |-> FALSE, n |-> 0, s |-> "", o |-> es]
Member(key, val) == [k |-> key, v |-> val]

\* ToBoolean: the test of `body ? ... : null` and of `if (j?.message)`.
Truthy(v) ==
  CASE v.t = "boolean" -> v.b
    [] v.t = "number"  -> v.n # 0
    [] v.t = "string"  -> v.s # ""
    [] v.t = "object"  -> TRUE
    [] v.t = "array"   -> TRUE
    [] OTHER           -> FALSE

\* j?.message: undefined for null and undefined (optional chaining), for
\* primitives and arrays (no such property), else the own property's value.
GetOptional(j, key) ==
  IF j.t = "object" /\ \E i \in 1..Len(j.o) : j.o[i].k = key
  THEN j.o[CHOOSE i \in 1..Len(j.o) : j.o[i].k = key].v
  ELSE Undefined

\* ToString, as applied by the Error constructor to its message argument.
RECURSIVE JoinElements(_, _)
ToStringJS(v) ==
  CASE v.t = "string"    -> v.s
    [] v.t = "number"    -> ToString(v.n)
    [] v.t = "boolean"   -> IF v.b THEN "true" ELSE "false"
    [] v.t = "null"      -> "null"
    [] v.t = "undefined" -> "undefined"
    [] v.t = "object"    -> "[object Object]"
    [] v.t = "array"     -> JoinElements(v.o, 1)
JoinElements(es, i) ==
  IF i > Len(es) THEN ""
  ELSE (IF es[i].v.t \in {"null", "undefined"} THEN "" ELSE ToStringJS(es[i].v))
       \o (IF i < Len(es) THEN "," \o JoinElements(es, i + 1) ELSE "")

(***************************************************************************)
(* JSON: the lexical domain, JSON.stringify and JSON.parse                 *)
(***************************************************************************)
Numbers == {0, 7, 42}
Strings == {"", "a", "b", "xyz", "not found", "message", "token", "username", "password"}

Quote(s)  == "\"" \o s \o "\""
NumTokens == {ToString(n) : n \in Numbers}
StrTokens == {Quote(s) : s \in Strings}
UnNum(tk)   == CHOOSE n \in Numbers : ToString(n) = tk
Unquote(tk) == CHOOSE s \in Strings : Quote(s) = tk

\* JSON.stringify(value): the token sequence of the JSON text.
RECURSIVE Stringify(_), StringifyList(_, _, _)
Stringify(v) ==
  CASE v.t = "null"    -> <<"null">>
    [] v.t = "boolean" -> IF v.b THEN <<"true">> ELSE <<"false">>
    [] v.t = "number"  -> <<ToString(v.n)>>
    [] v.t = "string"  -> <<Quote(v.s)>>
    [] v.t = "object"  -> <<"{">> \o StringifyList(v.o, 1, TRUE) \o <<"}">>
    [] v.t = "array"   -> <<"[">> \o StringifyList(v.o, 1, FALSE) \o <<"]">>
StringifyList(ms, i, keyed) ==
  IF i > Len(ms) THEN <<>>
  ELSE (IF keyed THEN <<Quote(ms[i].k), ":">> ELSE <<>>)
       \o Stringify(ms[i].v)
       \o (IF i < Len(ms) THEN <<",">> ELSE <<>>)
       \o StringifyList(ms, i + 1, keyed)

\* Object property definition while parsing: a repeated key keeps its
\* position and takes the later value.
PutMember(ms, key, val) ==
  IF \E i \in 1..Len(ms) : ms[i].k = key
  THEN [i \in 1..Len(ms) |-> IF ms[i].k = key THEN Member(key, val) ELSE ms[i]]
  ELSE Append(ms, Member(key, val))

ParseFail      == [ok |-> FALSE, val |-> Undefined, next |-> 0]
ParseOk(v, nx) == [ok |-> TRUE, val |-> v, next |-> nx]

\* Recursive descent over the tokens from position i.
RECURSIVE ParseValue(_, _), ParseMembers(_, _, _), ParseElements(_, _, _)
ParseValue(toks, i) ==
  IF i > Len(toks) THEN ParseFail
  ELSE LET tk == toks[i] IN
    CASE tk = "null"     -> ParseOk(Null, i + 1)
      [] tk = "true"     -> ParseOk(Bool(TRUE), i + 1)
      [] tk = "false"    -> ParseOk(Bool(FALSE), i + 1)
      [] tk \in NumTokens -> ParseOk(Num(UnNum(tk)), i + 1)
      [] tk \in StrTokens -> ParseOk(Str(Unquote(tk)), i + 1)
      [] tk = "{" -> IF i + 1 <= Len(toks) /\ toks[i + 1] = "}"
                     THEN ParseOk(Obj(<<>>), i + 2)
                     ELSE ParseMembers(toks, i + 1, <<>>)
      [] tk = "[" -> IF i + 1 <= Len(toks) /\ toks[i + 1] = "]"
                     THEN ParseOk(Arr(<<>>), i + 2)
                     ELSE ParseElements(toks, i + 1, <<>>)
      [] OTHER -> ParseFail
ParseMembers(toks, i, acc) ==
  IF i + 1 > Len(toks) \/ toks[i] \notin StrTokens \/ toks[i + 1] # ":"
  THEN ParseFail
  ELSE LET r == ParseValue(toks, i + 2) IN
    IF ~r.ok \/ r.next > Len(toks) THEN ParseFail
    ELSE LET ms == PutMember(acc, Unquote(toks[i]), r.val) IN
      CASE toks[r.next] = "}" -> ParseOk(Obj(ms), r.next + 1)
        [] toks[r.next] = "," -> ParseMembers(toks, r.next + 1, ms)
        [] OTHER -> ParseFail
ParseElements(toks, i, acc) ==
  LET r == ParseValue(toks, i) IN
    IF ~r.ok \/ r.next > Len(toks) THEN ParseFail
    ELSE LET es == Append(acc, Member("", r.val)) IN
      CASE toks[r.next] = "]" -> ParseOk(Arr(es), r.next + 1)
        [] toks[r.next] = "," -> ParseElements(toks, r.next + 1, es)
        [] OTHER -> ParseFail

NoError == [name |-> "", message |-> ""]
SyntaxError(toks) ==
  [name |-> "SyntaxError",
   message |-> IF toks = <<>> THEN "Unexpected end of JSON input"
               ELSE "Unexpected token in JSON"]

\* JSON.parse(text): the value, or the SyntaxError it throws.  The whole text
\* must be one value.
JSONparse(toks) ==
  LET r == ParseValue(toks, 1) IN
    IF r.ok /\ r.next = Len(toks) + 1
    THEN [ok |-> TRUE, val |-> r.val, err |-> NoError]
    ELSE [ok |-> FALSE, val |-> Undefined, err |-> SyntaxError(toks)]

(***************************************************************************)
(* The inputs: what callers pass and what the network answers              *)
(***************************************************************************)
NCalls == 2
Calls  == 1..NCalls
\* The invocation the single-call specification follows.
First  == CHOOSE c \in Calls : \A d \in Calls : c <= d

Paths      == {"/login", "/ping"}
MethodArgs == {Undefined, Str("GET"), Str("POST")}
Credentials == Obj(<<Member("username", Str("a")), Member("password", Str("b"))>>)
BodyArgs   == {Undefined, Null, Bool(FALSE), Bool(TRUE), Num(0), Num(7), Str(""),
               Str("a"), Obj(<<>>), Arr(<<>>), Credentials}

Statuses == {200, 204, 404, 503}
NotFound == Obj(<<Member("message", Str("not found"))>>)
Token    == Obj(<<Member("token", Str("xyz"))>>)
ResponseValues ==
  {Token, NotFound, Null, Str("a"), Num(7), Obj(<<>>), Arr(<<>>),
   Arr(<<Member("", Str("message"))>>),
   Obj(<<Member("token", Str("xyz")), Member("message", Str("b"))>>)}
  \cup {Obj(<<Member("message", m)>>) :
          m \in {Str(""), Num(0), Num(42), Bool(FALSE), Bool(TRUE), Null,
                 Obj(<<>>), Arr(<<>>)}}
Truncated    == <<"{", Quote("message"), ":", Quote("not found")>>
InvalidTexts == {<<>>, <<"<html>">>, Truncated, <<"null", "null">>}
Texts        == {Stringify(v) : v \in ResponseValues} \cup InvalidTexts

FailedToFetch   == [name |-> "TypeError", message |-> "Failed to fetch"]
TransportErrors == {FailedToFetch,
                    [name |-> "TypeError", message |-> "Load failed"]}

\* The reduced domain of the concurrent specification.
ConcPaths      == {"/ping"}
ConcMethodArgs == {Undefined, Str("POST")}
ConcBodyArgs   == {Undefined, Credentials}
ConcStatuses   == {200, 404}
ConcTexts      == {Stringify(NotFound), Stringify(Token), <<>>}
ConcErrors     == {FailedToFetch}

(***************************************************************************)
(* The expressions of api()                                                *)
(***************************************************************************)
API_BASE == "/api"

\* A default parameter value applies when the argument is undefined.
Default(arg, dflt) == IF arg.t = "undefined" THEN dflt ELSE arg

\* body ? JSON.stringify(body) : null
RequestBody(body) ==
  IF Truthy(body) THEN [present |-> TRUE, text |-> Stringify(body)]
  ELSE [present |-> FALSE, text |-> <<>>]

\* The arguments of the fetch call.
FetchInit(path, method, body) ==
  [url         |-> API_BASE \o path,
   method      |-> method.s,
   credentials |-> "include",
   contentType |-> "application/json",
   body        |-> RequestBody(body)]

\* res.ok of the fetch Response.
ResOk(status) == status >= 200 /\ status <= 299

\* An own property of that name exists (whatever its value).
HasField(j, key) == j.t = "object" /\ \E i \in 1..Len(j.o) : j.o[i].k = key

\* Mutant: the message is taken whenever the field is present
\* (`if (j && "message" in j)` for `if (j?.message)`).
ErrorMessageAnyField(status, jr) ==
  IF jr.ok /\ HasField(jr.val, "message") THEN GetOptional(jr.val, "message")
  ELSE Str("Request failed (" \o ToString(status) \o ")")

\* let msg = `Request failed (${res.status})`;
\* try { const j = await res.json(); if (j?.message) msg = j.message; } catch {}
ErrorMessage(status, jr) ==
  LET m == GetOptional(jr.val, "message")
  IN IF jr.ok /\ Truthy(m) THEN m
     ELSE Str("Request failed (" \o ToString(status) \o ")")

\* new Error(msg)
NewError(msg) == [name |-> "Error", message |-> ToStringJS(msg)]

Pending     == [kind |-> "pending", val |-> Undefined, err |-> NoError]
Resolved(v) == [kind |-> "resolved", val |-> v, err |-> NoError]
Rejected(e) == [kind |-> "rejected", val |-> Undefined, err |-> e]

\* Mutant: the body read of the error branch is not wrapped in try/catch, so
\* its failure is what the call rejects with.
ThrownUncaught(status, jr) ==
  IF jr.ok THEN Rejected(NewError(ErrorMessage(status, jr))) ELSE Rejected(jr.err)

\* throw new Error(msg), in the !res.ok branch.
Thrown(status, jr) == Rejected(NewError(ErrorMessage(status, jr)))

\* Mutant: `res.json();` without `return`: the call resolves with undefined.
ReturnedNothing(jr) == IF jr.ok THEN Resolved(Undefined) ELSE Rejected(jr.err)

\* Mutant: `return res.json().catch(() => null)`: a parse failure is swallowed.
ReturnedSwallowed(jr) == IF jr.ok THEN Resolved(jr.val) ELSE Resolved(Null)

\* return res.json(): the call adopts the outcome of the body read.
Returned(jr) == IF jr.ok THEN Resolved(jr.val) ELSE Rejected(jr.err)

(***************************************************************************)
(* State                                                                   *)
(***************************************************************************)
VARIABLES
  pc,         \* where each invocation stands: idle, fetch, errJson, okJson, settled
  args,       \* the arguments each invocation was called with
  fetches,    \* per invocation, the fetch calls it has made (their arguments)
  response,   \* per invocation, what the network completed its fetch with
  res,        \* per invocation, its local `res`
  jsonCalls,  \* per invocation, how many times res.json() was invoked
  jsonDone,   \* per invocation, how many body reads have completed or failed
  outcome     \* per invocation, the settlement of the promise api() returned

vars == <<pc, args, fetches, response, res, jsonCalls, jsonDone, outcome>>

NoArgs     == [given |-> FALSE, path |-> "", method |-> Undefined, body |-> Undefined]
NoResponse == [kind |-> "none", status |-> 0, text |-> <<>>, err |-> NoError]
Response(status, text) ==
  [kind |-> "response", status |-> status, text |-> text, err |-> NoError]
Failure(err) == [kind |-> "failure", status |-> 0, text |-> <<>>, err |-> err]

Init ==
  /\ pc = [c \in Calls |-> "idle"]
  /\ args = [c \in Calls |-> NoArgs]
  /\ fetches = [c \in Calls |-> <<>>]
  /\ response = [c \in Calls |-> NoResponse]
  /\ res = [c \in Calls |-> NoResponse]
  /\ jsonCalls = [c \in Calls |-> 0]
  /\ jsonDone = [c \in Calls |-> 0]
  /\ outcome = [c \in Calls |-> Pending]

\* Mutant: `res` declared once at module scope, shared by all invocations.
BindShared(locals, c, value) == [d \in DOMAIN locals |-> value]

\* Each invocation has its own `res` (a const of the function body).
Bind(locals, c, value) == [locals EXCEPT ![c] = value]

\* api(path, method = "GET", body = null) up to `await fetch(...)`.
Invoke(c, path, methodArg, bodyArg) ==
  /\ pc[c] = "idle"
  /\ args' = [args EXCEPT ![c] = [given |-> TRUE, path |-> path,
                                  method |-> methodArg, body |-> bodyArg]]
  /\ fetches' = [fetches EXCEPT ![c] =
       Append(@, FetchInit(path, Default(methodArg, Str("GET")),
                           Default(bodyArg, Null)))]
  /\ pc' = [pc EXCEPT ![c] = "fetch"]
  /\ UNCHANGED <<response, res, jsonCalls, jsonDone, outcome>>

\* The fetch promise fulfils with a Response; the function resumes, tests
\* res.ok and invokes res.json() in the branch taken, where it suspends again.
FetchFulfilled(c, status, text) ==
  /\ pc[c] = "fetch"
  /\ response' = [response EXCEPT ![c] = Response(status, text)]
  /\ res' = Bind(res, c, Response(status, text))
  /\ jsonCalls' = [jsonCalls EXCEPT ![c] = @ + 1]
  /\ pc' = [pc EXCEPT ![c] = IF ~ResOk(status) THEN "errJson" ELSE "okJson"]
  /\ UNCHANGED <<args, fetches, jsonDone, outcome>>

\* Mutant: a rejected fetch is issued again (a retry loop around the await).
FetchRejectedRetry(c, err) ==
  /\ pc[c] = "fetch"
  /\ fetches' = [fetches EXCEPT ![c] = Append(@, @[Len(@)])]
  /\ UNCHANGED <<pc, args, response, res, jsonCalls, jsonDone, outcome>>

\* Mutant: the await is wrapped in try/catch and the transport failure is
\* replaced by the normalised Error.
FetchRejectedWrapped(c, err) ==
  /\ pc[c] = "fetch"
  /\ response' = [response EXCEPT ![c] = Failure(err)]
  /\ outcome' = [outcome EXCEPT ![c] = Rejected(NewError(Str("Request failed (0)")))]
  /\ pc' = [pc EXCEPT ![c] = "settled"]
  /\ UNCHANGED <<args, fetches, res, jsonCalls, jsonDone>>

\* The fetch promise rejects: the await throws out of the function.
FetchRejected(c, err) ==
  /\ pc[c] = "fetch"
  /\ response' = [response EXCEPT ![c] = Failure(err)]
  /\ outcome' = [outcome EXCEPT ![c] = Rejected(err)]
  /\ pc' = [pc EXCEPT ![c] = "settled"]
  /\ UNCHANGED <<args, fetches, res, jsonCalls, jsonDone>>

\* Mutant: the `throw` is missing, so after the error branch's body read the
\* function goes on to `return res.json()` and reads the body again.
ErrJsonFallsThrough(c) ==
  /\ pc[c] = "errJson"
  /\ jsonDone' = [jsonDone EXCEPT ![c] = @ + 1]
  /\ jsonCalls' = [jsonCalls EXCEPT ![c] = @ + 1]
  /\ pc' = [pc EXCEPT ![c] = "okJson"]
  /\ UNCHANGED <<args, fetches, response, res, outcome>>

\* The body read of the !res.ok branch completes or fails; the function
\* resumes inside the try and throws new Error(msg).
ErrJsonSettled(c) ==
  /\ pc[c] = "errJson"
  /\ jsonDone' = [jsonDone EXCEPT ![c] = @ + 1]
  /\ outcome' = [outcome EXCEPT ![c] = Thrown(res[c].status, JSONparse(res[c].text))]
  /\ pc' = [pc EXCEPT ![c] = "settled"]
  /\ UNCHANGED <<args, fetches, response, res, jsonCalls>>

\* The body read of `return res.json()` completes or fails and settles the call.
OkJsonSettled(c) ==
  /\ pc[c] = "okJson"
  /\ jsonDone' = [jsonDone EXCEPT ![c] = @ + 1]
  /\ outcome' = [outcome EXCEPT ![c] = Returned(JSONparse(res[c].text))]
  /\ pc' = [pc EXCEPT ![c] = "settled"]
  /\ UNCHANGED <<args, fetches, response, res, jsonCalls>>

\* One invocation, over the full input domain.
Next ==
  \/ \E p \in Paths, m \in MethodArgs, b \in BodyArgs : Invoke(First, p, m, b)
  \/ \E s \in Statuses, t \in Texts : FetchFulfilled(First, s, t)
  \/ \E e \in TransportErrors : FetchRejected(First, e)
  \/ ErrJsonSettled(First)
  \/ OkJsonSettled(First)

Spec == Init /\ [][Next]_vars

\* NCalls invocations in flight together, their continuations interleaved in
\* every order the event loop allows.
NextConc ==
  \E c \in Calls :
    \/ \E p \in ConcPaths, m \in ConcMethodArgs, b \in ConcBodyArgs : Invoke(c, p, m, b)
    \/ \E s \in ConcStatuses, t \in ConcTexts : FetchFulfilled(c, s, t)
    \/ \E e \in ConcErrors : FetchRejected(c, e)
    \/ ErrJsonSettled(c)
    \/ OkJsonSettled(c)

SpecConc == Init /\ [][NextConc]_vars

(***************************************************************************)
(* Properties                                                              *)
(***************************************************************************)
Settled(c)     == pc[c] = "settled"
GotResponse(c) == response[c].kind = "response"
Parsed(c)      == JSONparse(response[c].text)
\* A body argument was given: neither omitted (undefined) nor the null that
\* stands for "no body".
BodyGiven(c)   == args[c].given /\ args[c].body.t \notin {"undefined", "null"}
DefaultError(status) ==
  [name |-> "Error", message |-> "Request failed (" \o ToString(status) \o ")"]

\* C1: a settled call whose response had a success status and a body that
\* parses as JSON has resolved with exactly the parsed value, whatever its
\* path, method and body arguments were.
C1_SuccessResolvesParsed ==
  \A c \in Calls :
    (Settled(c) /\ GotResponse(c) /\ ResOk(response[c].status) /\ Parsed(c).ok)
      => outcome[c] = [kind |-> "resolved", val |-> Parsed(c).val, err |-> NoError]

\* api("/login", "POST", {username:"a", password:"b"}) answered 200 {token:"xyz"}
\* has resolved to {token:"xyz"}.
C1_Witness ==
  /\ Settled(First)
  /\ args[First] = [given |-> TRUE, path |-> "/login", method |-> Str("POST"),
                    body |-> Credentials]
  /\ response[First] = Response(200, <<"{", "\"token\"", ":", "\"xyz\"", "}">>)
  /\ outcome[First].kind = "resolved"
  /\ outcome[First].val = Token

\* C2 as claimed: a settled call whose response had a non-success status and a
\* JSON body with a message field has rejected with a failure whose message is
\* that field's value exactly, whatever the value.
C2_MessageFieldAlwaysUsed ==
  \A c \in Calls :
    (Settled(c) /\ GotResponse(c) /\ ~ResOk(response[c].status)
       /\ Parsed(c).ok /\ HasField(Parsed(c).val, "message"))
      => /\ outcome[c].kind = "rejected"
         /\ Str(outcome[c].err.message) = GetOptional(Parsed(c).val, "message")

\* C2 as amended: with a non-success status and a JSON body with a message
\* field, the call rejects with an Error whose message is the field's value
\* when that is a non-empty string, its text form when it is a non-zero
\* number or true, and the default "Request failed (<status>)" when it is
\* falsy (empty string, 0, false or null).
C2_TruthyMessageFieldUsed ==
  \A c \in Calls :
    (Settled(c) /\ GotResponse(c) /\ ~ResOk(response[c].status)
       /\ Parsed(c).ok /\ HasField(Parsed(c).val, "message"))
      => LET m == GetOptional(Parsed(c).val, "message")
             e == outcome[c].err
         IN /\ outcome[c].kind = "rejected"
            /\ outcome[c].val = Undefined
            /\ e.name = "Error"
            /\ (m.t = "string" /\ m.s # "") => e.message = m.s
            /\ (m.t = "number" /\ m.n # 0) => e.message = ToString(m.n)
            /\ (m.t = "boolean" /\ m.b) => e.message = "true"
            /\ (m.t = "string" /\ m.s = "") => e = DefaultError(response[c].status)
            /\ (m.t = "number" /\ m.n = 0) => e = DefaultError(response[c].status)
            /\ (m.t = "boolean" /\ ~m.b) => e = DefaultError(response[c].status)
            /\ m.t = "null" => e = DefaultError(response[c].status)

\* api("/ping") answered 404 {"message":"not found"} has rejected with
\* "not found".
C2_Witness ==
  /\ Settled(First)
  /\ response[First] = Response(404, <<"{", "\"message\"", ":", "\"not found\"", "}">>)
  /\ outcome[First] = Rejected([name |-> "Error", message |-> "not found"])

\* C3: a settled call whose response had a non-success status S and a body
\* that does not parse as JSON (the empty body included) or parses to a value
\* without a message field (null included) has rejected with the Error
\* "Request failed (S)": not with the parse failure, and not resolved.
C3_DefaultMessage ==
  \A c \in Calls :
    (Settled(c) /\ GotResponse(c) /\ ~ResOk(response[c].status)
       /\ (~Parsed(c).ok \/ ~HasField(Parsed(c).val, "message")))
      => outcome[c] = [kind |-> "rejected", val |-> Undefined,
                       err |-> DefaultError(response[c].status)]

\* A call answered 503 with an empty body has rejected with
\* "Request failed (503)".
C3_Witness ==
  /\ Settled(First)
  /\ response[First] = Response(503, <<>>)
  /\ outcome[First] = Rejected([name |-> "Error", message |-> "Request failed (503)"])

\* C4: whenever a body argument is given, the one fetch call carries a body,
\* that body is the JSON serialization of the argument, and parsing it gives the
\* argument back.
C4_GivenBodyIsSerialized ==
  \A c \in Calls :
    BodyGiven(c)
      => /\ Len(fetches[c]) = 1
         /\ fetches[c][1].body.present
         /\ fetches[c][1].body.text = Stringify(args[c].body)
         /\ JSONparse(fetches[c][1].body.text).ok
         /\ JSONparse(fetches[c][1].body.text).val = args[c].body

\* C5: the fetch call carries no body exactly when no body argument was given.
C5_NoBodyIffNotGiven ==
  \A c \in Calls :
    args[c].given
      => /\ Len(fetches[c]) = 1
         /\ ~BodyGiven(c) <=> ~fetches[c][1].body.present

\* C6: an invocation has made exactly one fetch call from the moment it is
\* called, and still exactly one however it went on: waiting for the fetch,
\* reading the body in either branch, or settled by a success, a non-success
\* status, a transport failure or a parse failure.
C6_ExactlyOneFetch ==
  \A c \in Calls :
    /\ pc[c] = "idle" => Len(fetches[c]) = 0
    /\ pc[c] # "idle" => Len(fetches[c]) = 1

\* A call settled by a transport failure has made one fetch call.
C6_Witness ==
  /\ Settled(First)
  /\ response[First].kind = "failure"
  /\ outcome[First].kind = "rejected"
  /\ Len(fetches[First]) = 1

\* C7: a settled call whose response had a success status and a body that does
\* not parse as JSON (the empty body included) has rejected with the parse
\* failure itself: a SyntaxError, not a "Request failed" Error, and no value.
C7_ParseFailurePropagates ==
  \A c \in Calls :
    (Settled(c) /\ GotResponse(c) /\ ResOk(response[c].status) /\ ~Parsed(c).ok)
      => /\ outcome[c] = [kind |-> "rejected", val |-> Undefined,
                          err |-> Parsed(c).err]
         /\ outcome[c].err.name = "SyntaxError"
         /\ outcome[c].err # DefaultError(response[c].status)

\* A call answered 204 with an empty body has rejected with the SyntaxError of
\* the empty input.
C7_Witness ==
  /\ Settled(First)
  /\ response[First] = Response(204, <<>>)
  /\ outcome[First] = Rejected([name |-> "SyntaxError",
                                message |-> "Unexpected end of JSON input"])

\* C8: a call whose fetch rejected is settled, rejected with that same
\* failure; no Response was bound and no body was read.
C8_TransportFailurePropagates ==
  \A c \in Calls :
    response[c].kind = "failure"
      => /\ Settled(c)
         /\ outcome[c] = [kind |-> "rejected", val |-> Undefined,
                          err |-> response[c].err]
         /\ res[c] = NoResponse
         /\ jsonCalls[c] = 0
         /\ jsonDone[c] = 0

\* A call whose fetch failed with "Failed to fetch" has rejected with it.
C8_Witness ==
  /\ Settled(First)
  /\ response[First] = Failure(FailedToFetch)
  /\ outcome[First] = Rejected([name |-> "TypeError", message |-> "Failed to fetch"])
  /\ jsonCalls[First] = 0

\* The outcome api() gives for what the network completed its fetch with.
OutcomeFor(r) ==
  CASE r.kind = "failure" -> Rejected(r.err)
    [] r.kind = "response" /\ ResOk(r.status) ->
         IF JSONparse(r.text).ok THEN Resolved(JSONparse(r.text).val)
         ELSE Rejected(JSONparse(r.text).err)
    [] r.kind = "response" /\ ~ResOk(r.status) ->
         LET j == JSONparse(r.text) IN
           IF j.ok /\ Truthy(GetOptional(j.val, "message"))
           THEN Rejected(NewError(GetOptional(j.val, "message")))
           ELSE Rejected(DefaultError(r.status))
    [] OTHER -> Pending

\* C9: with several calls in flight, in every interleaving of their fetch and
\* body-read completions, each call has made its own single fetch call, built
\* from its own arguments, and a settled call's outcome is the one its own
\* response determines; a call that is not settled has no outcome yet.
C9_CallsIndependent ==
  \A c \in Calls :
    /\ args[c].given
         => fetches[c] = <<FetchInit(args[c].path, Default(args[c].method, Str("GET")),
                                     Default(args[c].body, Null))>>
    /\ ~args[c].given => fetches[c] = <<>>
    /\ Settled(c) => outcome[c] = OutcomeFor(response[c])
    /\ ~Settled(c) => outcome[c] = Pending

\* Two calls with the same arguments each made their own fetch call and,
\* answered differently, settled each by its own response.
C9_Witness ==
  /\ Settled(1) /\ Settled(2)
  /\ args[1] = args[2]
  /\ fetches[1] = fetches[2] /\ Len(fetches[1]) = 1
  /\ response[1] = Response(200, Stringify(Token))
  /\ response[2] = Response(404, Stringify(NotFound))
  /\ outcome[1] = Resolved(Token)
  /\ outcome[2] = Rejected([name |-> "Error", message |-> "not found"])

\* C10: res.json() is invoked at most once per call, only once a Response has
\* arrived and then exactly once: in the error branch when the status is
\* non-success, on the return when it is success.  A call that received a
\* Response is settled exactly when that one body read has completed or failed.
C10_BodyReadOnce ==
  \A c \in Calls :
    /\ jsonCalls[c] <= 1
    /\ jsonDone[c] <= jsonCalls[c]
    /\ jsonCalls[c] = 1 <=> GotResponse(c)
    /\ GotResponse(c) => res[c] = response[c]
    /\ pc[c] = "errJson" => (GotResponse(c) /\ ~ResOk(res[c].status) /\ jsonDone[c] = 0)
    /\ pc[c] = "okJson" => (GotResponse(c) /\ ResOk(res[c].status) /\ jsonDone[c] = 0)
    /\ GotResponse(c) => (Settled(c) <=> jsonDone[c] = 1)
    /\ GotResponse(c) => pc[c] \in {"errJson", "okJson", "settled"}
    /\ pc[c] \in {"idle", "fetch"} => outcome[c] = Pending
    /\ pc[c] \in {"errJson", "okJson"} => outcome[c] = Pending

\* A call answered with a non-success status is settled after one body read.
C10_Witness ==
  /\ Settled(First)
  /\ GotResponse(First) /\ ~ResOk(response[First].status)
  /\ jsonCalls[First] = 1 /\ jsonDone[First] = 1
  /\ outcome[First].kind = "rejected"

====
